---------------------------- MODULE Spec2Model ----------------------------
(***************************************************************************)
(* A model of src/src/App.jsx (htaschne/mtg-deck-diff): the deck text      *)
(* parser, the set algebra and merge engine over two decks, and the        *)
(* Scryfall name-resolution pass with its cache.                           *)
(*                                                                         *)
(* Strings are TLA+ strings; TLC evaluates Len, SubSeq and \o on them, so  *)
(* the regular expressions of the source are operators over characters.    *)
(***************************************************************************)
EXTENDS Naturals, Integers, Sequences, FiniteSets, TLC

(***************************************************************************)
(* Characters and strings                                                  *)
(***************************************************************************)

\* String.prototype.slice with 1-based inclusive positions: the characters
\* of s from a to b, cut to the string ("" when there are none).
Slice(s, a, b) ==
  LET lo == IF a < 1 THEN 1 ELSE a
      hi == IF b > Len(s) THEN Len(s) ELSE b
  IN IF lo > hi THEN "" ELSE SubSeq(s, lo, hi)

\* The character of s at position i (1-based), "" outside the string.
At(s, i) == Slice(s, i, i)

\* \s of a JavaScript regular expression, over the characters the model uses.
IsSpace(c) == c \in {" ", "\t", "\n", "\r"}

\* \d
IsDigit(c) == c \in {"0", "1", "2", "3", "4", "5", "6", "7", "8", "9"}

UpperLetters == "ABCDEFGHIJKLMNOPQRSTUVWXYZ"

LowerLetters == "abcdefghijklmnopqrstuvwxyz"

UpperSet == {At(UpperLetters, i) : i \in 1..26}

LowerSet == {At(LowerLetters, i) : i \in 1..26}

IsUpper(c) == c \in UpperSet

IsLower(c) == c \in LowerSet

\* \w : a word character, [A-Za-z0-9_]
IsWord(c) == IsUpper(c) \/ IsLower(c) \/ IsDigit(c) \/ c = "_"

\* The lower-case letter of each upper-case letter.
LowerOf == [c \in UpperSet |-> At(LowerLetters, CHOOSE i \in 1..26 : At(UpperLetters, i) = c)]

\* String.prototype.toLowerCase on one character.
LowerChar(c) == IF IsUpper(c) THEN LowerOf[c] ELSE c

RECURSIVE toLowerCase(_)
toLowerCase(s) ==
  IF Len(s) = 0 THEN ""
  ELSE LowerChar(At(s, 1)) \o toLowerCase(Slice(s, 2, Len(s)))

\* String.prototype.trim
RECURSIVE TrimLeft(_)
TrimLeft(s) ==
  IF Len(s) > 0 /\ IsSpace(At(s, 1)) THEN TrimLeft(Slice(s, 2, Len(s))) ELSE s

RECURSIVE TrimRight(_)
TrimRight(s) ==
  IF Len(s) > 0 /\ IsSpace(At(s, Len(s)))
  THEN TrimRight(Slice(s, 1, Len(s) - 1))
  ELSE s

trim(s) == TrimLeft(TrimRight(s))

IsSlash(c) == c = "/"

IsDigitOrSlash(c) == IsDigit(c) \/ c = "/"

IsNewline(c) == c = "\n"

\* Whether c is in the named character class of a regular expression.
InClass(class, c) ==
  CASE class = "space" -> IsSpace(c)
    [] class = "digit" -> IsDigit(c)
    [] class = "slash" -> IsSlash(c)
    [] class = "digitOrSlash" -> IsDigitOrSlash(c)
    [] class = "newline" -> IsNewline(c)
    [] class = "notNewline" -> ~IsNewline(c)

\* The length of the run of characters of a class that starts at i.
RECURSIVE RunLen(_, _, _)
RunLen(class, s, i) ==
  IF i <= Len(s) /\ InClass(class, At(s, i)) THEN 1 + RunLen(class, s, i + 1) ELSE 0

\* The length of the run of characters of a class that ends at i.
RECURSIVE RunLenBack(_, _, _)
RunLenBack(class, s, i) ==
  IF i >= 1 /\ InClass(class, At(s, i)) THEN 1 + RunLenBack(class, s, i - 1) ELSE 0

\* s starts with the word w, compared without case, followed by a word
\* boundary: /^w\b/i for a w that ends in a word character.
StartsWithWord(s, w) ==
  /\ Len(s) >= Len(w)
  /\ toLowerCase(Slice(s, 1, Len(w))) = w
  /\ (Len(s) = Len(w) \/ ~IsWord(At(s, Len(w) + 1)))

(***************************************************************************)
(* normalizeName (App.jsx 538-548)                                         *)
(***************************************************************************)

\* s.replace(/\/{3,}/g, "//") : every maximal run of three or more slashes
\* becomes two.
RECURSIVE CollapseSlashes(_)
CollapseSlashes(s) ==
  IF Len(s) = 0 THEN ""
  ELSE LET n == RunLen("slash", s, 1) IN
       IF n >= 3 THEN "//" \o CollapseSlashes(Slice(s, n + 1, Len(s)))
       ELSE IF n >= 1 THEN Slice(s, 1, n) \o CollapseSlashes(Slice(s, n + 1, Len(s)))
       ELSE At(s, 1) \o CollapseSlashes(Slice(s, 2, Len(s)))

\* s.replace(/\s*\/\/\s*/g, " // ") : scanning from the left, a match starts
\* at a (possibly empty) whitespace run that is directly followed by "//",
\* and takes the whitespace after it.
RECURSIVE SpaceSeparators(_)
SpaceSeparators(s) ==
  IF Len(s) = 0 THEN ""
  ELSE LET w == RunLen("space", s, 1) IN
       IF Slice(s, w + 1, w + 2) = "//"
       THEN LET w2 == RunLen("space", s, w + 3) IN
            " // " \o SpaceSeparators(Slice(s, w + 3 + w2, Len(s)))
       ELSE IF w >= 1
       THEN Slice(s, 1, w) \o SpaceSeparators(Slice(s, w + 1, Len(s)))
       ELSE At(s, 1) \o SpaceSeparators(Slice(s, 2, Len(s)))

\* s.replace(/\s{2,}/g, " ") : a whitespace run of two or more becomes one
\* space; a single whitespace character is kept as it is.
RECURSIVE CollapseSpaces(_)
CollapseSpaces(s) ==
  IF Len(s) = 0 THEN ""
  ELSE LET w == RunLen("space", s, 1) IN
       IF w >= 2 THEN " " \o CollapseSpaces(Slice(s, w + 1, Len(s)))
       ELSE At(s, 1) \o CollapseSpaces(Slice(s, 2, Len(s)))

normalizeName(raw) ==
  IF raw = "" THEN raw
  ELSE trim(CollapseSpaces(SpaceSeparators(CollapseSlashes(trim(raw)))))

(***************************************************************************)
(* parseDeckText (App.jsx 550-592)                                         *)
(***************************************************************************)

\* A Map: a function from its keys to their values.
EmptyMap == [n \in {} |-> 0]

\* Map.prototype.get(k) || 0
GetOr0(m, k) == IF k \in DOMAIN m THEN m[k] ELSE 0

\* Map.prototype.set(k, v)
MapSet(m, k, v) == [n \in DOMAIN m \cup {k} |-> IF n = k THEN v ELSE m[n]]

\* text.replace(/\r/g, "\n")
RECURSIVE ReplaceCR(_)
ReplaceCR(s) ==
  IF Len(s) = 0 THEN ""
  ELSE (IF At(s, 1) = "\r" THEN "\n" ELSE At(s, 1)) \o ReplaceCR(Slice(s, 2, Len(s)))

\* s.split(/\n+/) : the pieces between the runs of line breaks; a piece at
\* either end may be empty.
RECURSIVE SplitLines(_)
SplitLines(s) ==
  LET n == RunLen("notNewline", s, 1)
      b == RunLen("newline", s, n + 1)
  IN IF b = 0 THEN <<s>>
     ELSE <<Slice(s, 1, n)>> \o SplitLines(Slice(s, n + b + 1, Len(s)))

\* .map((l) => l.trim()).filter(Boolean)
RECURSIVE TrimAndDropEmpty(_)
TrimAndDropEmpty(ls) ==
  IF ls = <<>> THEN <<>>
  ELSE LET l == trim(Head(ls)) IN
       (IF l = "" THEN <<>> ELSE <<l>>) \o TrimAndDropEmpty(Tail(ls))

\* The lines the parser scans (App.jsx 553-557).
DeckLines(text) == TrimAndDropEmpty(SplitLines(ReplaceCR(text)))

\* The sideboard test without its i flag.
IsSideboardLineCaseSensitive(line) ==
  /\ Slice(line, 1, 9) \in {"Sideboard", "sideboard"}
  /\ (Len(line) = 9 \/ ~IsWord(At(line, 10)))

\* /^sideboard\b/i.test(line)
IsSideboardLine(line) == StartsWithWord(line, "sideboard")

\* /^(deck|companion)\b/i.test(line)
IsHeaderLine(line) == StartsWithWord(line, "deck") \/ StartsWithWord(line, "companion")

\* line.match(/^(\d+)x?\s+(.+)$/i) : the leading digits, an optional x, at
\* least one whitespace character, and a rest of at least one character.
\* d, x and w are the lengths of the three leading parts.
CardMatch(line) ==
  LET d == RunLen("digit", line, 1)
      x == IF toLowerCase(At(line, d + 1)) = "x" THEN 1 ELSE 0
      w == RunLen("space", line, d + x + 1)
  IN [ok |-> d >= 1 /\ w >= 1 /\ d + x + w < Len(line),
      digits |-> Slice(line, 1, d),
      rest |-> Slice(line, d + x + w + 1, Len(line))]

ValueOf == [c \in {At("0123456789", i) : i \in 1..10} |->
              (CHOOSE i \in 1..10 : At("0123456789", i) = c) - 1]

DigitValue(c) == ValueOf[c]

\* parseInt(digits, 10) for a string of digits
RECURSIVE parseInt(_)
parseInt(digits) ==
  IF Len(digits) = 0 THEN 0
  ELSE 10 * parseInt(Slice(digits, 1, Len(digits) - 1)) + DigitValue(At(digits, Len(digits)))

\* name.replace(/\s*\[[^\]]+\]\s*$/, "") : the text must end, whitespace
\* aside, in "]"; the match takes the leftmost "[" that has at least one
\* character and no "]" between it and that last "]", and the whitespace
\* before it.
StripBracket(s) ==
  LET e == Len(TrimRight(s))
      ok(j) == /\ At(s, j) = "["
               /\ j + 2 <= e
               /\ \A k \in (j + 1)..(e - 1) : At(s, k) # "]"
      js == {j \in 1..e : ok(j)}
  IN IF e >= 1 /\ At(s, e) = "]" /\ js # {}
     THEN LET j == CHOOSE m \in js : \A o \in js : m <= o
          IN Slice(s, 1, j - 1 - RunLenBack("space", s, j - 1))
     ELSE s

\* The parenthesis rule without the collector number: /\s*\([^)]*\)\s*$/.
StripParenOnly(s) ==
  LET close(j) == {k \in (j + 1)..Len(s) : At(s, k) = ")"}
      first(j) == CHOOSE k \in close(j) : \A o \in close(j) : k <= o
      js == {j \in 1..Len(s) : At(s, j) = "(" /\ close(j) # {}
                                /\ first(j) + RunLen("space", s, first(j) + 1) = Len(s)}
  IN IF js # {}
     THEN LET j == CHOOSE m \in js : \A o \in js : m <= o
          IN Slice(s, 1, j - 1 - RunLenBack("space", s, j - 1))
     ELSE s

\* name.replace(/\s*\([^)]*\)\s*[\d/]*\s*$/, "") : the leftmost "(" whose
\* first ")" is followed, up to the end, only by whitespace, then digits
\* and slashes, then whitespace; and the whitespace before that "(".
StripParen(s) ==
  LET close(j) == {k \in (j + 1)..Len(s) : At(s, k) = ")"}
      first(j) == CHOOSE k \in close(j) : \A o \in close(j) : k <= o
      tailOk(k) ==
        LET a == RunLen("space", s, k + 1)
            b == RunLen("digitOrSlash", s, k + 1 + a)
            c == RunLen("space", s, k + 1 + a + b)
        IN k + a + b + c = Len(s)
      js == {j \in 1..Len(s) : At(s, j) = "(" /\ close(j) # {} /\ tailOk(first(j))}
  IN IF js # {}
     THEN LET j == CHOOSE m \in js : \A o \in js : m <= o
          IN Slice(s, 1, j - 1 - RunLenBack("space", s, j - 1))
     ELSE s

\* name.replace(/\s+\d+\s*$/, "") : the text ends, whitespace aside, in a
\* run of digits that has whitespace before it.
StripTrailingNumber(s) ==
  LET e == Len(TrimRight(s))
      d == RunLenBack("digit", s, e)
      w == RunLenBack("space", s, e - d)
  IN IF d >= 1 /\ w >= 1 THEN Slice(s, 1, e - d - w) ELSE s

\* The key of a card line: the matched rest, cleaned and normalized
\* (App.jsx 574-584).
CardName(rest) ==
  normalizeName(StripTrailingNumber(StripParen(StripBracket(trim(rest)))))

\* A parser that would drop a line of quantity 0 instead of recording it.
AccumulateSkipsZero(map, name, qty) ==
  IF qty = 0 THEN map ELSE MapSet(map, name, GetOr0(map, name) + qty)

\* map.set(name, (map.get(name) || 0) + qty) (App.jsx 587-588)
Accumulate(map, name, qty) == MapSet(map, name, GetOr0(map, name) + qty)

\* The for loop of parseDeckText from line i on, with the map built so far.
RECURSIVE ParseFrom(_, _, _)
ParseFrom(lines, i, map) ==
  IF i > Len(lines) THEN map
  ELSE IF IsSideboardLine(lines[i]) THEN map
  ELSE IF IsHeaderLine(lines[i]) THEN ParseFrom(lines, i + 1, map)
  ELSE LET m == CardMatch(lines[i]) IN
       IF ~m.ok THEN ParseFrom(lines, i + 1, map)
       ELSE LET qty == parseInt(m.digits)
                name == CardName(m.rest)
            IN ParseFrom(lines, i + 1, Accumulate(map, name, qty))

parseDeckText(text) == ParseFrom(DeckLines(text), 1, EmptyMap)

(***************************************************************************)
(* Set algebra (App.jsx 594-597, 776-784)                                  *)
(***************************************************************************)

\* The value JavaScript gives for a missing key (Map.get, obj[key]).
Undefined == 0 - 1

\* Map.prototype.get
MapGet(m, k) == IF k \in DOMAIN m THEN m[k] ELSE Undefined

\* The truthiness of a quantity: undefined and 0 are falsy.
Truthy(q) == q # Undefined /\ q # 0

\* A fixed total order of the characters, standing for the collation that
\* String.prototype.localeCompare applies.
Collation == "\t ()[]/_0123456789aAbBcCdDeEfFgGhHiIjJkKlLmMnNoOpPqQrRsStTuUvVwWxXyYzZ"

RankOf ==
  [c \in {At(Collation, i) : i \in 1..Len(Collation)} |->
     CHOOSE i \in 1..Len(Collation) : At(Collation, i) = c]

CharRank(c) == RankOf[c]

\* x.localeCompare(y) < 0
RECURSIVE NameLess(_, _)
NameLess(x, y) ==
  IF y = "" THEN FALSE
  ELSE IF x = "" THEN TRUE
  ELSE IF At(x, 1) = At(y, 1) THEN NameLess(Slice(x, 2, Len(x)), Slice(y, 2, Len(y)))
  ELSE CharRank(At(x, 1)) < CharRank(At(y, 1))

\* [...set].sort((x, y) => x.localeCompare(y))
RECURSIVE SortNames(_)
SortNames(S) ==
  IF S = {} THEN <<>>
  ELSE LET least == CHOOSE x \in S : \A y \in S \ {x} : NameLess(x, y)
       IN <<least>> \o SortNames(S \ {least})

\* The keys of a followed by the keys of b, without the Set and the sort.
keysOfBoth(a, b) == SortNames(DOMAIN a) \o SortNames(DOMAIN b)

unionNames(a, b) == SortNames(DOMAIN a \cup DOMAIN b)

\* A status that takes a key of quantity 0 as present.
computeStatusByKey(qa, qb) ==
  IF qa # Undefined /\ qb # Undefined THEN (IF qa = qb THEN "equal" ELSE "diff")
  ELSE IF qa # Undefined THEN "onlyA"
  ELSE IF qb # Undefined THEN "onlyB"
  ELSE "equal"

computeStatus(qa, qb) ==
  IF Truthy(qa) /\ Truthy(qb) THEN (IF qa = qb THEN "equal" ELSE "diff")
  ELSE IF Truthy(qa) /\ ~Truthy(qb) THEN "onlyA"
  ELSE IF ~Truthy(qa) /\ Truthy(qb) THEN "onlyB"
  ELSE "equal"

\* The four summary counts (App.jsx 1158-1161).
StatusCount(a, b, status) ==
  Cardinality({n \in DOMAIN a \cup DOMAIN b : computeStatus(MapGet(a, n), MapGet(b, n)) = status})

(***************************************************************************)
(* Merge engine (App.jsx 25-54, 1165-1217)                                 *)
(***************************************************************************)

\* mergeChoices[name] || defaultChoice ; a missing default is "null".
ChoiceOr(choices, name, defaultChoice) ==
  IF name \in DOMAIN choices THEN choices[name] ELSE defaultChoice

\* The quantity of a row for the three choices the both-sides path knows
\* (App.jsx 48-51, 1195-1198).
QtyOfChoice(choice, qa, qb) ==
  IF choice = "A" THEN qa
  ELSE IF choice = "B" THEN qb
  ELSE IF choice = "Both" THEN qa + qb
  ELSE 0

\* A filter that would keep the rows of quantity 0.
NonNegativeRow(row) == row.qty >= 0

\* .filter((row) => row.qty > 0)
PositiveRow(row) == row.qty > 0

\* The options computeMergedDeck offers for two quantities (App.jsx 30-46).
OptionsOf(qa, qb) ==
  IF qa > 0 /\ qb > 0
  THEN (IF qa = qb THEN <<"A", "B">> ELSE <<"A", "B", "Both">>)
  ELSE IF qa > 0 THEN <<"A">>
  ELSE IF qb > 0 THEN <<"B">>
  ELSE <<>>

\* A default that would prefer Both whenever both sides have the card.
DefaultOfAlwaysBoth(qa, qb) ==
  IF qa > 0 /\ qb > 0 THEN "Both"
  ELSE IF qa > 0 THEN "A"
  ELSE IF qb > 0 THEN "B"
  ELSE "null"

\* The default choice computeMergedDeck computes (App.jsx 31-46).
DefaultOf(qa, qb) ==
  IF qa > 0 /\ qb > 0
  THEN (IF qa = qb THEN "A" ELSE "Both")
  ELSE IF qa > 0 THEN "A"
  ELSE IF qb > 0 THEN "B"
  ELSE "null"

\* The row computeMergedDeck builds for one name (App.jsx 27-52).
MergedRow(name, a, b, choices) ==
  LET qa == GetOr0(a, name)
      qb == GetOr0(b, name)
      choice == ChoiceOr(choices, name, DefaultOf(qa, qb))
  IN [name |-> name, qty |-> QtyOfChoice(choice, qa, qb), choice |-> choice,
      options |-> OptionsOf(qa, qb), qa |-> qa, qb |-> qb]

computeMergedDeck(a, b, choices) ==
  LET names == unionNames(a, b)
  IN SelectSeq([i \in 1..Len(names) |-> MergedRow(names[i], a, b, choices)], PositiveRow)

\* String(n) for a quantity.
RECURSIVE numberToString(_)
numberToString(n) ==
  IF n < 10 THEN At("0123456789", n + 1)
  ELSE numberToString(n \div 10) \o At("0123456789", (n % 10) + 1)

\* deckRows.map((row) => `${row.qty} ${row.name}`).join("\n") : the text
\* downloadMergedDeck puts into the file (App.jsx 56-58).
RECURSIVE MergedDeckText(_)
MergedDeckText(deckRows) ==
  IF deckRows = <<>> THEN ""
  ELSE LET line == numberToString(deckRows[1].qty) \o " " \o deckRows[1].name
       IN IF Len(deckRows) = 1 THEN line
          ELSE line \o "\n" \o MergedDeckText(Tail(deckRows))

\* eligibleForMerge (App.jsx 1253-1254): present in exactly one deck.
eligibleForMerge(name, a, b) ==
  \/ name \in DOMAIN a /\ name \notin DOMAIN b
  \/ name \in DOMAIN b /\ name \notin DOMAIN a

\* selectedForMerge[name], as a truth value
IsSelected(selected, name) == name \in DOMAIN selected /\ selected[name]

\* The row the merge-mode branch builds for one name (App.jsx 1180-1215).
MergeModeRow(name, a, b, choices) ==
  LET qa == GetOr0(a, name)
      qb == GetOr0(b, name)
  IN IF name \in DOMAIN a /\ name \in DOMAIN b
     THEN LET options == IF qa = qb THEN <<"A", "B">> ELSE <<"A", "B", "Both">>
              defaultChoice == IF qa = qb THEN "A" ELSE "Both"
              choice == ChoiceOr(choices, name, defaultChoice)
          IN [name |-> name, qty |-> QtyOfChoice(choice, qa, qb), choice |-> choice,
              options |-> options, qa |-> qa, qb |-> qb]
     ELSE LET options == IF qa > 0 THEN <<"A">> ELSE IF qb > 0 THEN <<"B">> ELSE <<>>
              defaultChoice == IF qa > 0 THEN "A" ELSE IF qb > 0 THEN "B" ELSE "null"
              choice == ChoiceOr(choices, name, defaultChoice)
              qty == IF choice = "A" THEN qa ELSE IF choice = "B" THEN qb ELSE 0
          IN [name |-> name, qty |-> qty, choice |-> choice,
              options |-> options, qa |-> qa, qb |-> qb]

\* The mergedDeckRows memo (App.jsx 1165-1217).
mergedDeckRows(merge, a, b, choices, selected) ==
  IF ~merge THEN computeMergedDeck(a, b, choices)
  ELSE LET both == {n \in DOMAIN a \cup DOMAIN b : n \in DOMAIN a /\ n \in DOMAIN b}
           sel == {n \in DOMAIN selected : selected[n] /\ eligibleForMerge(n, a, b)}
           mergedNames == SortNames(both \cup sel)
       IN SelectSeq([i \in 1..Len(mergedNames) |->
                       MergeModeRow(mergedNames[i], a, b, choices)], PositiveRow)

\* Whether DeckColumn renders the row of a name of deckMap (App.jsx
\* 1001-1016): in merge mode a selected name, and a name of both decks, is
\* hidden.
ColumnShows(name, deckMap, otherDeckMap, merge, selected) ==
  IF ~merge THEN TRUE
  ELSE IF eligibleForMerge(name, deckMap, otherDeckMap) /\ ~IsSelected(selected, name) THEN TRUE
  ELSE IF IsSelected(selected, name) THEN FALSE
  ELSE IF eligibleForMerge(name, deckMap, otherDeckMap) THEN TRUE
  ELSE IF name \in DOMAIN otherDeckMap /\ name \in DOMAIN deckMap THEN FALSE
  ELSE TRUE

\* The names DeckColumn lists for a deck (App.jsx 977, 1001-1042).
ColumnNames(deckMap, otherDeckMap, merge, selected) ==
  {n \in DOMAIN deckMap : ColumnShows(n, deckMap, otherDeckMap, merge, selected)}

\* The background class CardRow gives a row (App.jsx 857-865): the red of
\* "only in A" is applied only if deck B has at least one key.
bgColor(qa, qb, deckBSize) ==
  IF Truthy(qa) /\ Truthy(qb) /\ qa = qb THEN "bg-gray-700"
  ELSE IF ~Truthy(qa) /\ Truthy(qb) THEN "bg-green-700"
  ELSE IF deckBSize > 0 /\ Truthy(qa) /\ ~Truthy(qb) THEN "bg-red-700"
  ELSE IF Truthy(qa) /\ Truthy(qb) /\ qa # qb THEN "bg-yellow-700"
  ELSE "bg-gray-800"

\* The background class of the row of a name in the column of a side
\* (App.jsx 1030-1039, 1425-1454): qa and qb are read from the two decks.
RowColor(name, a, b) ==
  bgColor(MapGet(a, name), MapGet(b, name), Cardinality(DOMAIN b))

\* The rows on the screen, as pairs of side and name (App.jsx 1001-1042,
\* 1423-1456): the column of deck B is rendered only if deck B has a key.
DisplayedRows(a, b, merge, selected) ==
  ({"A"} \X ColumnNames(a, b, merge, selected))
    \cup (IF Cardinality(DOMAIN b) > 0
          THEN {"B"} \X ColumnNames(b, a, merge, selected)
          ELSE {})

(***************************************************************************)
(* Card cache and fetchCardsByNames (App.jsx 599-749)                      *)
(***************************************************************************)

\* The size of a batch of the bulk lookup. The code uses 70; the model
\* scales it down so that a list of three names spans two batches.
BatchSize == 2

\* batch(arr, size)
RECURSIVE batch(_, _)
batch(arr, size) ==
  IF Len(arr) = 0 THEN <<>>
  ELSE IF Len(arr) <= size THEN <<arr>>
  ELSE <<SubSeq(arr, 1, size)>> \o batch(SubSeq(arr, size + 1, Len(arr)), size)

\* The cards of the catalog: the canonical name and, for a card with faces,
\* the name of its first face. No two cards share a name or a first face.
Cards == { [name |-> "Fire // Ice", face0 |-> "Fire"] }

\* The names to resolve: "Fire" is the first face of the catalog's
\* "Fire // Ice", "fire // ice" differs from it by case, and the catalog
\* has no card named "Zzz".
FetchNames == {"Fire", "Zzz", "fire // ice"}

\* A cache entry { card: normalizeCard(c), ts } for a card of the catalog.
\* The time stamp is left out.
CardEntry(c) == [found |-> TRUE, name |-> c.name]

\* The cache entry { card: null, ts }.
Tombstone == [found |-> FALSE, name |-> ""]

\* An object with no entries.
EmptyCache == [n \in {} |-> Tombstone]

\* cache[key] = entry
CachePut(cache, key, entry) ==
  [n \in DOMAIN cache \cup {key} |-> IF n = key THEN entry ELSE cache[n]]

\* What localStorage holds under CARD_CACHE_KEY.
CacheStoreAbsent == [kind |-> "absent", obj |-> EmptyCache]

CacheStoreObject(cache) == [kind |-> "object", obj |-> cache]

\* The item is the text of a JSON array: JSON.parse returns the array.
CacheStoreArray(arr) == [kind |-> "array", obj |-> arr]

\* The item is the text "null".
CacheStoreNull == [kind |-> "null", obj |-> EmptyCache]

\* The item is not JSON.
CacheStoreUnparsable == [kind |-> "unparsable", obj |-> EmptyCache]

\* localStorage.getItem throws.
CacheStoreUnreadable == [kind |-> "unreadable", obj |-> EmptyCache]

\* loadCache: JSON.parse(raw) || {} inside try, {} for a missing item and
\* in catch. Whatever truthy value the text parses to is returned.
loadCache(store) == IF store.kind \in {"object", "array"} THEN store.obj ELSE EmptyCache

saveCache(cache) == CacheStoreObject(cache)

\* names.filter((n) => !cache[n])
ToFetch(names, cache) ==
  LET Missing(n) == n \notin DOMAIN cache IN SelectSeq(names, Missing)

\* What the catalog answers to a bulk call for a chunk: the call rejects,
\* the body is not JSON, the status is not ok (the body is an error object
\* without data and not_found), or the status is ok with any cards as data
\* and any names of the chunk as not_found.
BulkResponses(chunk) ==
  { [kind |-> "reject", data |-> {}, not_found |-> {}],
    [kind |-> "malformed", data |-> {}, not_found |-> {}],
    [kind |-> "nonok", data |-> {}, not_found |-> {}] }
  \cup { [kind |-> "ok", data |-> d, not_found |-> nf] :
           d \in SUBSET Cards, nf \in SUBSET {chunk[i] : i \in 1..Len(chunk)} }

\* What the catalog answers to a single lookup: a card, a status that is
\* not ok, or a call that throws.
NoCard == [name |-> "", face0 |-> ""]

SingleResponses ==
  { [kind |-> "notok", card |-> NoCard], [kind |-> "error", card |-> NoCard] }
  \cup { [kind |-> "ok", card |-> c] : c \in Cards }

\* full.split("//")[0] : the text before the first "//".
RECURSIVE BeforeSeparator(_)
BeforeSeparator(s) ==
  IF Len(s) = 0 \/ Slice(s, 1, 2) = "//" THEN ""
  ELSE At(s, 1) \o BeforeSeparator(Slice(s, 2, Len(s)))

\* The lookups tried for a name the bulk call reports as not found
\* (App.jsx 708-719).
Variants(origName) ==
  LET full == normalizeName(origName)
      frontOnly == trim(BeforeSeparator(full))
  IN <<[kind |-> "exact", q |-> full], [kind |-> "fuzzy", q |-> full]>>
     \o (IF Len(frontOnly) > 0
         THEN <<[kind |-> "exact", q |-> frontOnly], [kind |-> "fuzzy", q |-> frontOnly]>>
         ELSE <<>>)

\* The strings of card resolution with their lowercase form, the lowercase
\* of their normalized form and their lookups, each computed once.
FetchStrings == FetchNames \cup {c.name : c \in Cards} \cup {c.face0 : c \in Cards}

LowerCased == [n \in FetchStrings |-> toLowerCase(n)]

NormalizedLower == [n \in FetchStrings |-> toLowerCase(normalizeName(n))]

VariantsOf == [n \in FetchStrings |-> Variants(n)]

\* An invocation of fetchCardsByNames between two awaits.
\*   pc      "bulk": awaiting the bulk call of chunk ci; "single": awaiting
\*           lookup vi of name fi of that chunk; "done": returned;
\*           "threw": ended by an exception
\*   saves   how often it has called saveCache
\*   failed  whether one of its bulk calls was rejected, not ok or malformed
Chunks(p) == batch(p.toFetch, BatchSize)

ChunkOf(p) == Chunks(p)[p.ci]

\* The end of fetchCardsByNames (App.jsx 747-748).
Finish(p) ==
  [p EXCEPT !.pc = "done", !.saves = @ + 1, !.fi = 0, !.vi = 0, !.notFound = {}]

\* The for loop over the chunks moves on (App.jsx 661-669): the next bulk
\* call is issued, or the function saves the cache and returns.
NextChunk(p) ==
  IF p.ci < Len(Chunks(p))
  THEN [p EXCEPT !.pc = "bulk", !.ci = @ + 1, !.fi = 0, !.vi = 0, !.notFound = {}]
  ELSE Finish(p)

\* The fallback loop from name number from on (App.jsx 704-706): the first
\* name that is still not cached and was reported as not found gets its
\* first lookup; without such a name the chunk is finished.
NextFallback(p, from) ==
  LET chunk == ChunkOf(p)
      need == {i \in from..Len(chunk) :
                 /\ chunk[i] \notin DOMAIN p.cache
                 /\ LowerCased[chunk[i]] \in p.notFound}
  IN IF need = {} THEN NextChunk(p)
     ELSE [p EXCEPT !.pc = "single",
                    !.fi = CHOOSE i \in need : \A j \in need : i <= j,
                    !.vi = 1]

\* cache[card.name] = { card, ts } for every card received (App.jsx 680-688).
RECURSIVE CacheReceived(_, _)
CacheReceived(cache, data) ==
  IF data = {} THEN cache
  ELSE LET c == CHOOSE x \in data : TRUE
       IN CacheReceived(CachePut(cache, c.name, CardEntry(c)), data \ {c})

\* A match loop that would look at the canonical names only.
RECURSIVE CacheMatchesCanonicalOnly(_, _, _, _)
CacheMatchesCanonicalOnly(cache, chunk, i, data) ==
  IF i > Len(chunk) THEN cache
  ELSE LET origName == chunk[i]
           q == NormalizedLower[origName]
           hit == {c \in data : c.name # "" /\ LowerCased[c.name] = q}
       IN IF origName \in DOMAIN cache \/ hit = {}
          THEN CacheMatchesCanonicalOnly(cache, chunk, i + 1, data)
          ELSE CacheMatchesCanonicalOnly(
                 CachePut(cache, origName, CardEntry(CHOOSE c \in hit : TRUE)),
                 chunk, i + 1, data)

\* The requested names of the chunk that are not cached yet get the card
\* whose canonical name, or else whose first-face name, is their normalized
\* form, compared without case (App.jsx 692-701).
RECURSIVE CacheMatches(_, _, _, _)
CacheMatches(cache, chunk, i, data) ==
  IF i > Len(chunk) THEN cache
  ELSE LET origName == chunk[i]
           q == NormalizedLower[origName]
           byCanonical == {c \in data : c.name # "" /\ LowerCased[c.name] = q}
           byFront == {c \in data : c.face0 # "" /\ LowerCased[c.face0] = q}
           hit == IF byCanonical # {} THEN byCanonical ELSE byFront
       IN IF origName \in DOMAIN cache \/ hit = {}
          THEN CacheMatches(cache, chunk, i + 1, data)
          ELSE CacheMatches(CachePut(cache, origName, CardEntry(CHOOSE c \in hit : TRUE)),
                            chunk, i + 1, data)

\* The bulk call of the current chunk is answered (App.jsx 665-706). A call
\* that rejects, or a body that is not JSON, throws out of the function.
OnBulk(p, resp) ==
  IF resp.kind \in {"reject", "malformed"}
  THEN [p EXCEPT !.pc = "threw", !.failed = TRUE, !.fi = 0, !.vi = 0, !.notFound = {}]
  ELSE LET received == IF resp.kind = "ok" THEN resp.data ELSE {}
           notFound == IF resp.kind = "ok"
                       THEN {LowerCased[n] : n \in resp.not_found}
                       ELSE {}
           cache1 == CacheReceived(p.cache, received)
           cache2 == CacheMatches(cache1, ChunkOf(p), 1, received)
       IN NextFallback([p EXCEPT !.cache = cache2, !.notFound = notFound,
                                 !.failed = @ \/ resp.kind = "nonok"], 1)

\* A fallback that would leave a name without an entry after its last
\* lookup has failed.
OnSingleNoTombstone(p, resp) ==
  LET origName == ChunkOf(p)[p.fi] IN
  IF resp.kind = "ok"
  THEN NextFallback([p EXCEPT !.cache = CachePut(@, origName, CardEntry(resp.card))], p.fi + 1)
  ELSE IF p.vi < Len(VariantsOf[origName])
  THEN [p EXCEPT !.vi = @ + 1]
  ELSE NextFallback(p, p.fi + 1)

\* A single lookup is answered (App.jsx 722-745): a card is cached under
\* the requested name; otherwise the next variant is tried, and after the
\* last one the name gets a tombstone.
OnSingle(p, resp) ==
  LET origName == ChunkOf(p)[p.fi] IN
  IF resp.kind = "ok"
  THEN NextFallback([p EXCEPT !.cache = CachePut(@, origName, CardEntry(resp.card))], p.fi + 1)
  ELSE IF p.vi < Len(VariantsOf[origName])
  THEN [p EXCEPT !.vi = @ + 1]
  ELSE NextFallback([p EXCEPT !.cache = IF origName \in DOMAIN @ THEN @
                                          ELSE CachePut(@, origName, Tombstone)],
                    p.fi + 1)

\* fetchCardsByNames(names, cache) up to its first await (App.jsx 657-669):
\* with nothing to fetch it returns the cache at once, without saving it.
StartFetch(names, cache) ==
  LET toFetch == ToFetch(names, cache)
      p == [names |-> names, cache |-> cache, toFetch |-> toFetch, pc |-> "done",
            ci |-> 0, fi |-> 0, vi |-> 0, notFound |-> {}, saves |-> 0,
            failed |-> FALSE, mounted |-> TRUE]
  IN IF Len(toFetch) = 0 THEN p ELSE NextChunk(p)

\* get of useScryfall on a cache: cache[name]?.card || null (App.jsx 770).
get(cache, name) ==
  IF name \in DOMAIN cache /\ cache[name].found
  THEN [isNull |-> FALSE, name |-> cache[name].name]
  ELSE [isNull |-> TRUE, name |-> ""]

\* The names a fetch is asking the catalog about at this moment. Every step
\* of a fetch that does not end it issues one network call.
AskedNames(p) ==
  IF p.pc = "bulk" THEN {ChunkOf(p)[i] : i \in 1..Len(ChunkOf(p))}
  ELSE IF p.pc = "single" THEN {ChunkOf(p)[p.fi]}
  ELSE {}

(***************************************************************************)
(* Persisted merge choices (App.jsx 8-22)                                  *)
(***************************************************************************)

\* An object with no keys.
EmptyObject == [n \in {} |-> ""]

\* What localStorage holds under MERGE_CHOICES_KEY: nothing, the JSON text
\* of an object, or text that JSON.parse rejects.
StoreAbsent == [kind |-> "absent", obj |-> EmptyObject]

StoreObject(obj) == [kind |-> "object", obj |-> obj]

StoreUnparsable == [kind |-> "unparsable", obj |-> EmptyObject]

\* The item is the text of a JSON array: JSON.parse returns the array.
StoreArray(arr) == [kind |-> "array", obj |-> arr]

\* The item is the text "null".
StoreNull == [kind |-> "null", obj |-> EmptyObject]

\* localStorage.getItem throws.
StoreUnreadable == [kind |-> "unreadable", obj |-> EmptyObject]

loadMergeChoices(store) ==
  IF store.kind \in {"object", "array"} THEN store.obj ELSE EmptyObject

saveMergeChoices(obj) == StoreObject(obj)

(***************************************************************************)
(* The App component (App.jsx 1090-1316)                                   *)
(***************************************************************************)

VARIABLES
  deckAText,         \* useState: the text of deck A
  deckBText,         \* useState: the text of deck B
  deckA,             \* useMemo: parseDeckText(deckAText)
  deckB,             \* useMemo: parseDeckText(deckBText)
  showMerge,         \* useState: merge mode
  mergeChoices,      \* useState: name -> "A" | "B" | "Both"
  selectedForMerge,  \* useState: name -> boolean
  mergedRows,        \* useMemo: mergedDeckRows
  choiceStore,       \* localStorage[MERGE_CHOICES_KEY]
  pending,           \* the effects scheduled by the last render, not yet run
  typed,             \* history: the lines typed into deck A, as generated
  rendered           \* whether the component has rendered its inputs

\* The state of card resolution (useScryfall, App.jsx 751-772).
VARIABLES
  passes,            \* the invocations of fetchCardsByNames, oldest first
  cardStore,         \* localStorage[CARD_CACHE_KEY]
  sNames,            \* the name list of the last render
  sCache,            \* useState: cache
  loading,           \* useState: loading
  written,           \* history: the names a cache entry has been written for
  refetched          \* history: the names looked up after their entry was written

fetchVars == <<passes, cardStore, sNames, sCache, loading, written, refetched>>

\* A function of the program applied on its own.
VARIABLES
  callArgs,          \* the arguments of the call, as generated
  callResult         \* what the call returned, once it has returned

callVars == <<callArgs, callResult>>

appVars == <<deckAText, deckBText, deckA, deckB, showMerge, mergeChoices,
             selectedForMerge, mergedRows, choiceStore, pending>>

vars == <<appVars, typed, rendered, fetchVars, callVars>>

\* The card names of the deck texts of the model.
Names == {"Foo", "Bar"}

\* The deck texts a user enters in the model.
TextPool == {"", "2 Foo", "1 Foo", "2 Foo\n1 Bar", "1 Bar", "0 Foo\n1 Bar"}

Options == {"A", "B", "Both"}

\* All objects with keys among S and values among V.
Objects(S, V) == UNION {[D -> V] : D \in SUBSET S}

\* What an earlier session left in the store.
StorePool == {StoreAbsent, StoreUnparsable} \cup {StoreObject(o) : o \in Objects(Names, Options)}

\* No function applied on its own.
NoCall ==
  /\ callArgs = <<>>
  /\ callResult = <<>>

\* Card resolution at rest: no name to resolve, nothing cached or stored.
NoFetch ==
  /\ passes = <<>>
  /\ cardStore = CacheStoreAbsent
  /\ sNames = <<>>
  /\ sCache = EmptyCache
  /\ loading = FALSE
  /\ written = {}
  /\ refetched = {}

Init ==
  /\ deckAText = ""
  /\ deckBText = ""
  /\ deckA = parseDeckText("")
  /\ deckB = parseDeckText("")
  /\ showMerge = FALSE
  /\ choiceStore \in StorePool
  /\ mergeChoices = loadMergeChoices(choiceStore)
  /\ selectedForMerge = [n \in {} |-> FALSE]
  /\ mergedRows = mergedDeckRows(FALSE, deckA, deckB, mergeChoices, selectedForMerge)
  /\ pending = {"save", "prune"}
  /\ typed = <<>>
  /\ rendered = TRUE
  /\ NoFetch
  /\ NoCall

\* The render that follows a state change: the memo is recomputed.
Render == mergedRows' = mergedDeckRows(showMerge', deckA', deckB', mergeChoices', selectedForMerge')

\* React runs the effects of a render before it handles the next event.
Idle == pending = {}

\* The textarea of deck A changes, or a file is loaded into it
\* (App.jsx 1084, 1056): deckA is rebuilt and the prune effect scheduled.
SetDeckAText(t) ==
  /\ Idle
  /\ t # deckAText
  /\ deckAText' = t
  /\ deckA' = parseDeckText(t)
  /\ pending' = {"prune"}
  /\ UNCHANGED <<deckBText, deckB, showMerge, mergeChoices, selectedForMerge, choiceStore>>
  /\ Render
  /\ UNCHANGED <<typed, rendered, fetchVars, callVars>>

SetDeckBText(t) ==
  /\ Idle
  /\ t # deckBText
  /\ deckBText' = t
  /\ deckB' = parseDeckText(t)
  /\ pending' = {"prune"}
  /\ UNCHANGED <<deckAText, deckA, showMerge, mergeChoices, selectedForMerge, choiceStore>>
  /\ Render
  /\ UNCHANGED <<typed, rendered, fetchVars, callVars>>

\* canShowMerge (App.jsx 1319)
canShowMerge == Cardinality(DOMAIN deckA) > 0 /\ Cardinality(DOMAIN deckB) > 0

\* The Merge button (App.jsx 1392-1400), rendered only if canShowMerge.
ToggleShowMerge ==
  /\ Idle
  /\ canShowMerge
  /\ showMerge' = ~showMerge
  /\ UNCHANGED <<deckAText, deckBText, deckA, deckB, mergeChoices, selectedForMerge,
                 choiceStore, pending>>
  /\ Render
  /\ UNCHANGED <<typed, rendered, fetchVars, callVars>>

\* handleMergeChoice (App.jsx 1247-1249), from a button of a merged row
\* that offers more than one option (App.jsx 1476, 1522-1549).
HandleMergeChoice(i, value) ==
  /\ Idle
  /\ showMerge
  /\ i \in 1..Len(mergedRows)
  /\ Len(mergedRows[i].options) > 1
  /\ \E k \in 1..Len(mergedRows[i].options) : mergedRows[i].options[k] = value
  /\ mergeChoices' = [n \in DOMAIN mergeChoices \cup {mergedRows[i].name} |->
                        IF n = mergedRows[i].name THEN value ELSE mergeChoices[n]]
  /\ pending' = {"save"}
  /\ UNCHANGED <<deckAText, deckBText, deckA, deckB, showMerge, selectedForMerge, choiceStore>>
  /\ Render
  /\ UNCHANGED <<typed, rendered, fetchVars, callVars>>

\* handleToggleSelectForMerge (App.jsx 1256-1261), from a click on a row of
\* a deck column that is eligible and not yet selected (App.jsx 1018, 1028).
HandleToggleSelectForMerge(name) ==
  /\ Idle
  /\ showMerge
  /\ name \in DOMAIN deckA \cup DOMAIN deckB
  /\ eligibleForMerge(name, deckA, deckB)
  /\ ~IsSelected(selectedForMerge, name)
  /\ selectedForMerge' = [n \in DOMAIN selectedForMerge \cup {name} |->
                            IF n = name THEN ~IsSelected(selectedForMerge, name)
                            ELSE selectedForMerge[n]]
  /\ UNCHANGED <<deckAText, deckBText, deckA, deckB, showMerge, mergeChoices,
                 choiceStore, pending>>
  /\ Render
  /\ UNCHANGED <<typed, rendered, fetchVars, callVars>>

\* The effect on [mergeChoices] (App.jsx 1220-1222).
SaveEffect ==
  /\ "save" \in pending
  /\ choiceStore' = saveMergeChoices(mergeChoices)
  /\ pending' = pending \ {"save"}
  /\ UNCHANGED <<deckAText, deckBText, deckA, deckB, showMerge, mergeChoices,
                 selectedForMerge, mergedRows>>
  /\ UNCHANGED <<typed, rendered, fetchVars, callVars>>

\* An effect that would keep every entry.
KeepObject(obj, a, b) == obj

\* The entries of obj whose key is in the union of both decks
\* (App.jsx 1227-1231, 1237-1240).
PruneObject(obj, a, b) == [k \in DOMAIN obj \cap (DOMAIN a \cup DOMAIN b) |-> obj[k]]

\* The effect on [deckA, deckB] (App.jsx 1225-1244); it is declared after
\* the save effect and so runs after it.
PruneEffect ==
  /\ "prune" \in pending
  /\ "save" \notin pending
  /\ LET filtered == PruneObject(mergeChoices, deckA, deckB)
     IN IF Cardinality(DOMAIN filtered) # Cardinality(DOMAIN mergeChoices)
        THEN mergeChoices' = filtered /\ pending' = {"save"}
        ELSE mergeChoices' = mergeChoices /\ pending' = {}
  /\ selectedForMerge' = PruneObject(selectedForMerge, deckA, deckB)
  /\ UNCHANGED <<deckAText, deckBText, deckA, deckB, showMerge, choiceStore>>
  /\ Render
  /\ UNCHANGED <<typed, rendered, fetchVars, callVars>>

Next ==
  \/ \E t \in TextPool : SetDeckAText(t)
  \/ \E t \in TextPool : SetDeckBText(t)
  \/ ToggleShowMerge
  \/ \E i \in 1..Cardinality(Names), value \in Options : HandleMergeChoice(i, value)
  \/ \E name \in Names : HandleToggleSelectForMerge(name)
  \/ SaveEffect
  \/ PruneEffect

Spec == Init /\ [][Next]_vars

(***************************************************************************)
(* parseDeckText applied to generated texts                                *)
(***************************************************************************)

\* The most lines a generated text has.
MaxLines == 3

\* A generated line: its text, and what it is meant to be: a card line with
\* a quantity and a name, the start of the sideboard, or neither.
CardLine(raw, qty, base) == [raw |-> raw, kind |-> "card", qty |-> qty, base |-> base]

SideboardLine(raw) == [raw |-> raw, kind |-> "sideboard", qty |-> 0, base |-> ""]

OtherLine(raw) == [raw |-> raw, kind |-> "other", qty |-> 0, base |-> ""]

LinePool ==
  { CardLine("3 Foo [MOM]", 3, "Foo"),
    CardLine("3x Foo (MOM) 150", 3, "Foo"),
    CardLine("1 Foo 150", 1, "Foo"),
    CardLine("0 Foo", 0, "Foo"),
    CardLine("2  Bar\r", 2, "Bar"),
    CardLine("0 Bar (151/280)", 0, "Bar"),
    CardLine("2X Fire///Ice", 2, "Fire///Ice"),
    CardLine("1 Fire // Ice [MOM]", 1, "Fire // Ice"),
    CardLine("1 Foo 7 150", 1, "Foo 7"),
    SideboardLine("Sideboard"),
    SideboardLine(" SIDEBOARD: 15"),
    OtherLine("Deck"),
    OtherLine(""),
    OtherLine("Foo"),
    OtherLine("Sideboards"),
    OtherLine("4xFoo") }

\* All sequences over S of length at most n.
SeqsUpTo(S, n) == UNION {[1..k -> S] : k \in 0..n}

\* lines.join("\n")
RECURSIVE JoinRaw(_)
JoinRaw(ls) ==
  IF ls = <<>> THEN ""
  ELSE IF Len(ls) = 1 THEN ls[1].raw
  ELSE ls[1].raw \o "\n" \o JoinRaw(Tail(ls))

InitParse ==
  /\ typed \in SeqsUpTo(LinePool, MaxLines)
  /\ deckAText = JoinRaw(typed)
  /\ deckBText = ""
  /\ deckA = EmptyMap
  /\ deckB = EmptyMap
  /\ showMerge = FALSE
  /\ choiceStore = StoreAbsent
  /\ mergeChoices = EmptyObject
  /\ selectedForMerge = [n \in {} |-> FALSE]
  /\ mergedRows = <<>>
  /\ pending = {}
  /\ rendered = FALSE
  /\ NoFetch
  /\ NoCall

\* The deckA memo (App.jsx 1152) is computed from the text.
ParseText ==
  /\ ~rendered
  /\ deckA' = parseDeckText(deckAText)
  /\ rendered' = TRUE
  /\ UNCHANGED <<deckAText, deckBText, deckB, showMerge, mergeChoices, selectedForMerge,
                 mergedRows, choiceStore, pending, typed, fetchVars, callVars>>

NextParse == ParseText

SpecParse == InitParse /\ [][NextParse]_vars

(***************************************************************************)
(* The merge engine applied to generated decks and choices                 *)
(***************************************************************************)

\* The largest quantity of a generated deck.
MaxQty == 2

\* The decks parseDeckText can return over Names, quantity 0 included.
Decks == UNION {[D -> 0..MaxQty] : D \in SUBSET Names}

InitMerge ==
  /\ deckAText = ""
  /\ deckBText = ""
  /\ deckA \in Decks
  /\ deckB \in Decks
  /\ showMerge \in BOOLEAN
  /\ choiceStore = StoreAbsent
  /\ mergeChoices \in Objects(Names, Options)
  /\ selectedForMerge \in Objects(Names, BOOLEAN)
  /\ mergedRows = <<>>
  /\ pending = {}
  /\ typed = <<>>
  /\ rendered = FALSE
  /\ NoFetch
  /\ NoCall

\* The mergedDeckRows memo (App.jsx 1165-1217) is computed from its inputs.
RenderMerge ==
  /\ ~rendered
  /\ mergedRows' = mergedDeckRows(showMerge, deckA, deckB, mergeChoices, selectedForMerge)
  /\ rendered' = TRUE
  /\ UNCHANGED <<deckAText, deckBText, deckA, deckB, showMerge, mergeChoices,
                 selectedForMerge, choiceStore, pending, typed, fetchVars, callVars>>

NextMerge == RenderMerge

SpecMerge == InitMerge /\ [][NextMerge]_vars

(***************************************************************************)
(* fetchCardsByNames called twice with the same names                      *)
(***************************************************************************)

\* The name lists to resolve, in the order of names.sort().
NameListPool ==
  { <<>>, <<"Zzz">>, <<"Fire", "Zzz">>, <<"Fire", "Zzz", "fire // ice">> }

\* What an earlier session left under CARD_CACHE_KEY.
CacheStorePool ==
  { CacheStoreAbsent, CacheStoreObject([n \in {"Fire // Ice"} |-> Tombstone]) }

\* The component at rest.
NoApp ==
  /\ deckAText = ""
  /\ deckBText = ""
  /\ deckA = EmptyMap
  /\ deckB = EmptyMap
  /\ showMerge = FALSE
  /\ choiceStore = StoreAbsent
  /\ mergeChoices = EmptyObject
  /\ selectedForMerge = [n \in {} |-> FALSE]
  /\ mergedRows = <<>>
  /\ pending = {}
  /\ typed = <<>>
  /\ rendered = TRUE

InitFetch ==
  /\ NoApp
  /\ sNames \in NameListPool
  /\ cardStore \in CacheStorePool
  /\ sCache = loadCache(cardStore)
  /\ passes = <<StartFetch(sNames, sCache)>>
  /\ loading = FALSE
  /\ written = DOMAIN sCache
  /\ refetched = {}
  /\ NoCall

\* What a step of invocation i leaves behind: its cache object, the store
\* when it has saved, and the history of writes and lookups.
Settle(i, p) ==
  /\ passes' = [passes EXCEPT ![i] = p]
  /\ cardStore' = IF p.saves > passes[i].saves THEN saveCache(p.cache) ELSE cardStore
  /\ written' = written \cup DOMAIN p.cache
  /\ refetched' = refetched \cup (AskedNames(p) \cap written')

\* The bulk call of the running invocation is answered.
FetchBulk ==
  LET i == Len(passes) IN
  /\ passes[i].pc = "bulk"
  /\ \E resp \in BulkResponses(ChunkOf(passes[i])) : Settle(i, OnBulk(passes[i], resp))
  /\ UNCHANGED <<appVars, typed, rendered, callVars, sNames, sCache, loading>>

\* The single lookup of the running invocation is answered.
FetchSingle ==
  LET i == Len(passes) IN
  /\ passes[i].pc = "single"
  /\ \E resp \in SingleResponses : Settle(i, OnSingle(passes[i], resp))
  /\ UNCHANGED <<appVars, typed, rendered, callVars, sNames, sCache, loading>>

\* After the first call has returned, fetchCardsByNames is called with the
\* same names and the cache it returned.
FetchAgain ==
  /\ Len(passes) = 1
  /\ passes[1].pc = "done"
  /\ passes' = Append(passes, StartFetch(sNames, passes[1].cache))
  /\ refetched' = refetched \cup (AskedNames(passes'[2]) \cap written)
  /\ UNCHANGED <<appVars, typed, rendered, callVars, cardStore, sNames, sCache, loading, written>>

NextFetch ==
  \/ FetchBulk
  \/ FetchSingle
  \/ FetchAgain

SpecFetch == InitFetch /\ [][NextFetch]_vars

(***************************************************************************)
(* A session of useScryfall: the name list changes while passes run        *)
(***************************************************************************)

\* The number of passes a session starts.
MaxPasses == 2

\* The state after the first render and its effect: with no names the pass
\* returns at once and leaves the loaded cache as it is.
InitSession ==
  /\ NoApp
  /\ sNames = <<>>
  /\ cardStore \in CacheStorePool
  /\ sCache = loadCache(cardStore)
  /\ passes = <<>>
  /\ loading = FALSE
  /\ written = DOMAIN sCache
  /\ refetched = {}
  /\ NoCall

\* The continuation of the effect after fetchCardsByNames has returned
\* (App.jsx 761-762).
AfterFetch(p) ==
  IF p.pc = "done"
  THEN /\ sCache' = IF p.mounted THEN p.cache ELSE sCache
       /\ loading' = FALSE
  ELSE UNCHANGED <<sCache, loading>>

\* The deck texts change and with them the list of all names: the cleanup
\* of the previous effect runs and a new pass starts from a copy of the
\* cache state (App.jsx 755-768).
ChangeNames(names) ==
  LET p == StartFetch(names, sCache) IN
  /\ Len(passes) < MaxPasses
  /\ names # sNames
  /\ sNames' = names
  /\ passes' = Append([i \in DOMAIN passes |-> [passes[i] EXCEPT !.mounted = FALSE]], p)
  /\ IF p.pc = "done"
     THEN sCache' = p.cache /\ loading' = FALSE
     ELSE sCache' = sCache /\ loading' = TRUE
  /\ refetched' = refetched \cup (AskedNames(p) \cap written)
  /\ UNCHANGED <<appVars, typed, rendered, callVars, cardStore, written>>

\* The bulk call of pass i is answered.
PassBulk(i) ==
  /\ passes[i].pc = "bulk"
  /\ \E resp \in BulkResponses(ChunkOf(passes[i])) :
       LET p == OnBulk(passes[i], resp) IN Settle(i, p) /\ AfterFetch(p)
  /\ UNCHANGED <<appVars, typed, rendered, callVars, sNames>>

\* A single lookup of pass i is answered.
PassSingle(i) ==
  /\ passes[i].pc = "single"
  /\ \E resp \in SingleResponses :
       LET p == OnSingle(passes[i], resp) IN Settle(i, p) /\ AfterFetch(p)
  /\ UNCHANGED <<appVars, typed, rendered, callVars, sNames>>

NextSession ==
  \/ \E names \in NameListPool : ChangeNames(names)
  \/ \E i \in DOMAIN passes : PassBulk(i)
  \/ \E i \in DOMAIN passes : PassSingle(i)

SpecSession == InitSession /\ [][NextSession]_vars

(***************************************************************************)
(* computeStatus applied to two quantities                                 *)
(***************************************************************************)

\* The largest quantity computeStatus is applied to.
MaxCount == 6

\* What deck.get(name) returns: undefined, or a quantity.
QtyPool == {Undefined} \cup 0..MaxCount

InitStatus ==
  /\ NoApp
  /\ NoFetch
  /\ callArgs \in QtyPool \X QtyPool
  /\ callResult = <<>>

ApplyStatus ==
  /\ callResult = <<>>
  /\ callResult' = <<computeStatus(callArgs[1], callArgs[2])>>
  /\ UNCHANGED <<appVars, typed, rendered, fetchVars, callArgs>>

NextStatus == ApplyStatus

SpecStatus == InitStatus /\ [][NextStatus]_vars

(***************************************************************************)
(* unionNames applied to two decks                                         *)
(***************************************************************************)

\* The decks unionNames is applied to: any keys among three names, with
\* quantity 0 or 1.
UnionDecks == UNION {[D -> 0..1] : D \in SUBSET {"Bar", "Foo", "Fire // Ice"}}

InitUnion ==
  /\ NoApp
  /\ NoFetch
  /\ callArgs \in UnionDecks \X UnionDecks
  /\ callResult = <<>>

ApplyUnion ==
  /\ callResult = <<>>
  /\ callResult' = <<unionNames(callArgs[1], callArgs[2])>>
  /\ UNCHANGED <<appVars, typed, rendered, fetchVars, callArgs>>

NextUnion == ApplyUnion

SpecUnion == InitUnion /\ [][NextUnion]_vars

(***************************************************************************)
(* The load and save functions applied to a store                          *)
(***************************************************************************)

\* What the store can hold under MERGE_CHOICES_KEY.
ChoiceItems ==
  {StoreAbsent, StoreUnparsable, StoreUnreadable, StoreNull, StoreArray(<<"A">>)}
  \cup {StoreObject(o) : o \in Objects(Names, Options)}

\* What the store can hold under CARD_CACHE_KEY.
CacheItems ==
  {CacheStoreAbsent, CacheStoreUnparsable, CacheStoreUnreadable, CacheStoreNull,
   CacheStoreArray(<<Tombstone>>)}
  \cup {CacheStoreObject(o) : o \in Objects({"Zzz", "Fire"}, {Tombstone})}

\* A call of one of the four functions: the item in the store, the object
\* to save, and whether localStorage.setItem throws.
StoreCalls ==
  [fn : {"loadMergeChoices"}, item : ChoiceItems, obj : {EmptyObject}, fails : {FALSE}]
  \cup [fn : {"loadCache"}, item : CacheItems, obj : {EmptyCache}, fails : {FALSE}]
  \cup [fn : {"saveMergeChoices"}, item : {StoreAbsent, StoreObject([n \in {"Foo"} |-> "A"])},
        obj : Objects(Names, Options), fails : BOOLEAN]
  \cup [fn : {"saveCache"}, item : {CacheStoreAbsent},
        obj : Objects({"Zzz", "Fire"}, {Tombstone}), fails : BOOLEAN]

InitStore ==
  /\ NoApp
  /\ NoFetch
  /\ callArgs \in StoreCalls
  /\ callResult = <<>>

\* loadMergeChoices or loadCache returns: everything they do is inside
\* try, so neither throws (App.jsx 10-16, 607-613).
LoadItem ==
  /\ callResult = <<>>
  /\ callArgs.fn \in {"loadMergeChoices", "loadCache"}
  /\ callResult' = <<[threw |-> FALSE,
                      value |-> IF callArgs.fn = "loadCache" THEN loadCache(callArgs.item)
                                ELSE loadMergeChoices(callArgs.item),
                      item |-> callArgs.item,
                      obj |-> callArgs.obj]>>
  /\ UNCHANGED <<appVars, typed, rendered, fetchVars, callArgs>>

\* saveMergeChoices or saveCache returns: a setItem that throws is caught
\* and leaves the item as it was (App.jsx 18-22, 615-619).
SaveItem ==
  /\ callResult = <<>>
  /\ callArgs.fn \in {"saveMergeChoices", "saveCache"}
  /\ callResult' = <<[threw |-> FALSE,
                      value |-> callArgs.obj,
                      item |-> IF callArgs.fails THEN callArgs.item
                               ELSE IF callArgs.fn = "saveCache" THEN saveCache(callArgs.obj)
                               ELSE saveMergeChoices(callArgs.obj),
                      obj |-> callArgs.obj]>>
  /\ UNCHANGED <<appVars, typed, rendered, fetchVars, callArgs>>

NextStore ==
  \/ LoadItem
  \/ SaveItem

SpecStore == InitStore /\ [][NextStore]_vars

(***************************************************************************)
(* normalizeName applied to two raw names                                  *)
(***************************************************************************)

\* A generated raw name: its text, and the name it is a spelling of. Two
\* raw names of the same name differ in whitespace (kind, amount, around
\* the separator) and in the slash form of the separator only.
RawName(raw, of) == [raw |-> raw, of |-> of]

RawNamePool ==
  { RawName("Foo Bar", "Foo Bar"),
    RawName("Foo  Bar", "Foo Bar"),
    RawName(" Foo Bar ", "Foo Bar"),
    RawName("Foo\tBar", "Foo Bar"),
    RawName("Foo \t Bar", "Foo Bar"),
    RawName("Fire // Ice", "Fire // Ice"),
    RawName("Fire//Ice", "Fire // Ice"),
    RawName("Fire///Ice", "Fire // Ice"),
    RawName("Fire  //  Ice", "Fire // Ice"),
    RawName("Fire\t//\tIce", "Fire // Ice"),
    RawName("Fire //// Ice", "Fire // Ice"),
    RawName("Fire/// Ice", "Fire // Ice") }

InitNormalize ==
  /\ NoApp
  /\ NoFetch
  /\ callArgs \in RawNamePool \X RawNamePool
  /\ callResult = <<>>

\* Both raw names are normalized.
NormalizeBoth ==
  /\ callResult = <<>>
  /\ callResult' = <<normalizeName(callArgs[1].raw), normalizeName(callArgs[2].raw)>>
  /\ UNCHANGED <<appVars, typed, rendered, fetchVars, callArgs>>

NextNormalize == NormalizeBoth

SpecNormalize == InitNormalize /\ [][NextNormalize]_vars

(***************************************************************************)
(* Properties of the parser                                                *)
(***************************************************************************)

\* The position of the first generated sideboard line, or one past the end.
FirstSideboard ==
  LET sb == {i \in 1..Len(typed) : typed[i].kind = "sideboard"}
  IN IF sb = {} THEN Len(typed) + 1 ELSE CHOOSE i \in sb : \A j \in sb : i <= j

\* The card lines before the sideboard.
Contributing == {i \in 1..Len(typed) : i < FirstSideboard /\ typed[i].kind = "card"}

\* The key a generated card line is meant to land on.
KeyOf(i) == normalizeName(typed[i].base)

RECURSIVE SumQty(_)
SumQty(I) ==
  IF I = {} THEN 0
  ELSE LET i == CHOOSE j \in I : TRUE IN typed[i].qty + SumQty(I \ {i})

RECURSIVE SumDeck(_, _)
SumDeck(d, K) ==
  IF K = {} THEN 0
  ELSE LET k == CHOOSE j \in K : TRUE IN d[k] + SumDeck(d, K \ {k})

\* C7, as stated: every key of the deck parseDeckText returns has a quantity
\* greater than 0.
C7_EveryKeyPositive ==
  rendered => \A n \in DOMAIN deckA : deckA[n] > 0

\* C7, amended: every key of the deck parseDeckText returns has a quantity
\* greater than 0, except a name whose card lines before the sideboard all
\* have quantity 0: that name is a key of the deck with quantity 0.
C7_ZeroOnlyFromZeroLines ==
  rendered =>
    /\ \A n \in DOMAIN deckA :
         \/ deckA[n] > 0
         \/ /\ deckA[n] = 0
            /\ \A i \in Contributing : KeyOf(i) = n => typed[i].qty = 0
    /\ \A i \in Contributing : KeyOf(i) \in DOMAIN deckA

C7_Witness ==
  /\ rendered
  /\ \E n \in DOMAIN deckA : deckA[n] = 0
  /\ \E n \in DOMAIN deckA : deckA[n] > 0

\* C9: parseDeckText stops at the first line that starts with the word
\* sideboard, in any case: the keys of the deck are exactly the names of the
\* card lines before that line, and the quantities of the deck add up to
\* the quantities of those lines, so that no line at or after it counts
\* and every card line before it does.
C9_StopsAtSideboard ==
  rendered =>
    /\ DOMAIN deckA = {KeyOf(i) : i \in Contributing}
    /\ SumDeck(deckA, DOMAIN deckA) = SumQty(Contributing)

C9_Witness ==
  /\ rendered
  /\ Len(typed) = 3
  /\ typed[1].kind = "card" /\ typed[1].qty > 0
  /\ typed[2].kind = "sideboard"
  /\ typed[3].kind = "card" /\ typed[3].qty > 0
  /\ KeyOf(3) \notin DOMAIN deckA
  /\ KeyOf(1) \in DOMAIN deckA

\* C10: the quantity parseDeckText gives a name is the sum of the
\* quantities of the card lines before the sideboard whose cleaned and
\* normalized name is that name, whatever trailing annotation (bracketed,
\* parenthesized with collector number, bare number) each line carries.
C10_QuantityIsSumPerName ==
  rendered =>
    \A i \in Contributing :
      /\ KeyOf(i) \in DOMAIN deckA
      /\ deckA[KeyOf(i)] = SumQty({j \in Contributing : KeyOf(j) = KeyOf(i)})

C10_Witness ==
  /\ rendered
  /\ \E i, j \in Contributing :
       /\ typed[i].raw = "3 Foo [MOM]"
       /\ typed[j].raw = "3x Foo (MOM) 150"
  /\ "Foo" \in DOMAIN deckA
  /\ deckA["Foo"] = 6

(***************************************************************************)
(* Properties of the merge engine                                          *)
(***************************************************************************)

\* The options of a row, as a set.
OptionSet(row) == {row.options[k] : k \in 1..Len(row.options)}

RowsNamed(n) == {i \in 1..Len(mergedRows) : mergedRows[i].name = n}

\* C4: the option a merged row uses is one of the row's available options
\* (a stored choice that is not available is ignored for the default), so
\* that outside merge mode every name with a positive quantity keeps a row.
C4_UsedOptionIsAvailable ==
  /\ \A i \in 1..Len(mergedRows) : mergedRows[i].choice \in OptionSet(mergedRows[i])
  /\ ~showMerge =>
       \A n \in DOMAIN deckA \cup DOMAIN deckB :
         (GetOr0(deckA, n) > 0 \/ GetOr0(deckB, n) > 0) => RowsNamed(n) # {}

\* C5: with no stored choice for a name, computeMergedDeck gives options
\* A and B, choice A and quantity qa when both sides hold it with qa = qb;
\* options A, B and Both, choice Both and quantity qa + qb when both sides
\* hold it with different quantities; and the single side as only option
\* and choice when one side alone holds it. A side holds a name when its
\* quantity there is greater than 0.
C5_DefaultChoice ==
  (rendered /\ ~showMerge) =>
    \A n \in (DOMAIN deckA \cup DOMAIN deckB) \ DOMAIN mergeChoices :
      LET qa == GetOr0(deckA, n)
          qb == GetOr0(deckB, n)
          Row(options, choice, qty) ==
            \E i \in 1..Len(mergedRows) :
              /\ mergedRows[i].name = n
              /\ mergedRows[i].options = options
              /\ mergedRows[i].choice = choice
              /\ mergedRows[i].qty = qty
      IN /\ (qa > 0 /\ qb > 0 /\ qa = qb) => Row(<<"A", "B">>, "A", qa)
         /\ (qa > 0 /\ qb > 0 /\ qa # qb) => Row(<<"A", "B", "Both">>, "Both", qa + qb)
         /\ (qa > 0 /\ qb = 0) => Row(<<"A">>, "A", qa)
         /\ (qa = 0 /\ qb > 0) => Row(<<"B">>, "B", qb)

C5_Witness ==
  /\ rendered /\ ~showMerge
  /\ mergeChoices = EmptyObject
  /\ \E n, m \in DOMAIN deckA \cap DOMAIN deckB :
       /\ deckA[n] > 0 /\ deckA[n] = deckB[n]
       /\ deckA[m] > 0 /\ deckB[m] > 0 /\ deckA[m] # deckB[m]
  /\ Len(mergedRows) = 2

\* C6: every row of the merge output, in either mode, has a quantity greater
\* than 0 that is qa for option A, qb for option B and qa + qb for option
\* Both, and the rows are in strictly ascending name order.
C6_RowsPositiveAndSorted ==
  rendered =>
    /\ \A i \in 1..Len(mergedRows) :
         LET r == mergedRows[i]
             qa == GetOr0(deckA, r.name)
             qb == GetOr0(deckB, r.name)
         IN /\ r.qty > 0
            /\ r.choice \in Options
            /\ r.choice = "A" => r.qty = qa
            /\ r.choice = "B" => r.qty = qb
            /\ r.choice = "Both" => r.qty = qa + qb
    /\ \A i, j \in 1..Len(mergedRows) :
         i < j => NameLess(mergedRows[i].name, mergedRows[j].name)

C6_Witness ==
  /\ rendered /\ showMerge
  /\ Len(mergedRows) = 2
  /\ mergedRows[1].choice = "Both"
  /\ mergedRows[2].choice = "B"
  /\ \E n \in DOMAIN selectedForMerge : selectedForMerge[n] /\ RowsNamed(n) # {}

(***************************************************************************)
(* Quantity 0 at the places a deck is consumed                             *)
(***************************************************************************)

\* A deck without its keys of quantity 0.
WithoutZero(d) == [n \in {k \in DOMAIN d : d[k] > 0} |-> d[n]]

\* C8: a name with quantity 0 in a deck is treated like an absent name: the
\* four summary counts, the names a deck column lists and the merge rows
\* are those of the decks without their keys of quantity 0.
C8_ZeroIsAbsent ==
  LET a == WithoutZero(deckA)
      b == WithoutZero(deckB)
  IN /\ \A st \in {"onlyA", "onlyB", "equal", "diff"} :
          StatusCount(deckA, deckB, st) = StatusCount(a, b, st)
     /\ ColumnNames(deckA, deckB, showMerge, selectedForMerge)
          = ColumnNames(a, b, showMerge, selectedForMerge)
     /\ ColumnNames(deckB, deckA, showMerge, selectedForMerge)
          = ColumnNames(b, a, showMerge, selectedForMerge)
     /\ mergedRows = mergedDeckRows(showMerge, a, b, mergeChoices, selectedForMerge)


\* C1: after fetchCardsByNames has completed once, a second call with the
\* same names and the cache it returned issues no network call: the second
\* call is never waiting for a bulk call or a single lookup.
C1_SecondCallIssuesNoCall ==
  Len(passes) = 2 => passes[2].pc \notin {"bulk", "single"}

\* C2: once a cache entry has been written for a name in a session, no
\* network lookup for that name is issued afterwards.
C2_NoLookupAfterWrite == refetched = {}

\* C3: a rejected, non-ok or malformed bulk call does not abort the pass:
\* a pass with such a call never ends by throwing.
C3_FailedBulkDoesNotAbort ==
  \A i \in DOMAIN passes : passes[i].failed => passes[i].pc # "threw"


\* The merge output as a multiset: name -> quantity of its row.
RowsAsDeck(rows) ==
  [n \in {rows[i].name : i \in 1..Len(rows)} |->
     LET i == CHOOSE j \in 1..Len(rows) : rows[j].name = n IN rows[i].qty]

\* C11: round trip: the merge output of a parsed deck text, written as
\* lines "<qty> <name>" and parsed again, gives the multiset of the merge
\* output rows.
C11_ExportParsesBack ==
  rendered =>
    LET rows == computeMergedDeck(deckA, deckB, mergeChoices)
    IN parseDeckText(MergedDeckText(rows)) = RowsAsDeck(rows)


\* C12: two raw names that differ only in whitespace or in the slash form
\* of the separator have the same normalizeName.
C12_SameNameSameNormalForm ==
  (callResult # <<>> /\ callArgs[1].of = callArgs[2].of) => callResult[1] = callResult[2]


\* The quantity of a name in a deck, an absent name counted as 0.
CountOf(q) == IF q = Undefined THEN 0 ELSE q

\* C13: with an absent name counted as 0, computeStatus returns equal
\* exactly when the two quantities are equal, diff when both are positive
\* and unequal, onlyA when only the first is positive and onlyB when only
\* the second is.
C13_StatusOfQuantities ==
  callResult # <<>> =>
    LET qa == CountOf(callArgs[1])
        qb == CountOf(callArgs[2])
        status == callResult[1]
    IN /\ status = "equal" <=> qa = qb
       /\ (qa > 0 /\ qb > 0 /\ qa # qb) => status = "diff"
       /\ (qa > 0 /\ qb = 0) => status = "onlyA"
       /\ (qa = 0 /\ qb > 0) => status = "onlyB"

\* A key of quantity 0 against an absent name has been given its status.
C13_Witness ==
  /\ callArgs = <<0, Undefined>>
  /\ callResult = <<"equal">>


\* C14: unionNames(A, B) holds every key of A and of B exactly once and
\* nothing else, in ascending order; its length is the number of distinct
\* names of A and B together.
C14_UnionSortedNoDuplicates ==
  callResult # <<>> =>
    LET names == callResult[1]
        keys == DOMAIN callArgs[1] \cup DOMAIN callArgs[2]
    IN /\ {names[i] : i \in 1..Len(names)} = keys
       /\ Len(names) = Cardinality(keys)
       /\ \A i, j \in 1..Len(names) : i < j => NameLess(names[i], names[j])

\* Two decks that share a name and have one name each of their own have
\* been united.
C14_Witness ==
  /\ callResult # <<>>
  /\ DOMAIN callArgs[1] = {"Foo", "Fire // Ice"}
  /\ DOMAIN callArgs[2] = {"Foo", "Bar"}
  /\ Len(callResult[1]) = 3


\* C15: once the prune effect of a render has run, every key of
\* mergeChoices and every key of selectedForMerge is a name of the union
\* of both decks.
C15_KeysWithinUnion ==
  "prune" \notin pending =>
    /\ DOMAIN mergeChoices \subseteq DOMAIN deckA \cup DOMAIN deckB
    /\ DOMAIN selectedForMerge \subseteq DOMAIN deckA \cup DOMAIN deckB

\* The prune effect has just removed the choice stored for Foo, which has
\* left the union: the store still holds it, the state does not.
C15_Witness ==
  /\ pending = {"save"}
  /\ "Bar" \in DOMAIN deckA \cup DOMAIN deckB
  /\ "Foo" \notin DOMAIN deckA \cup DOMAIN deckB
  /\ "Foo" \in DOMAIN choiceStore.obj
  /\ "Foo" \notin DOMAIN mergeChoices


\* C16: in merge mode a name that is in exactly one deck and is selected
\* for merge has exactly one row in the merge output, with that side as
\* its only option and that side's quantity, and is hidden in the column
\* of its deck.
C16_SelectedShownOnceInMerge ==
  (Idle /\ showMerge) =>
    \A n \in DOMAIN deckA \cup DOMAIN deckB :
      (eligibleForMerge(n, deckA, deckB) /\ IsSelected(selectedForMerge, n)) =>
        LET side == IF n \in DOMAIN deckA THEN "A" ELSE "B"
            qty == IF n \in DOMAIN deckA THEN deckA[n] ELSE deckB[n]
            rows == {i \in 1..Len(mergedRows) : mergedRows[i].name = n}
        IN /\ Cardinality(rows) = 1
           /\ \A i \in rows : mergedRows[i].options = <<side>> /\ mergedRows[i].qty = qty
           /\ ~ColumnShows(n, deckA, deckB, showMerge, selectedForMerge)
           /\ ~ColumnShows(n, deckB, deckA, showMerge, selectedForMerge)


\* C17: loadCache and loadMergeChoices return an empty object and do not
\* throw when the item is missing, cannot be read or is not the text of a
\* flat JSON object; saveCache and saveMergeChoices do not throw when the
\* write fails, and leave the object they were given as it was.
C17_StoreFailuresDegrade ==
  callResult # <<>> =>
    LET call == callArgs
        r == callResult[1]
    IN /\ ~r.threw
       /\ (call.fn \in {"loadMergeChoices", "loadCache"} /\ call.item.kind # "object")
            => DOMAIN r.value = {}
       /\ (call.fn \in {"saveMergeChoices", "saveCache"} /\ call.fails)
            => r.obj = call.obj /\ r.item = call.item


\* C18: when the last fallback lookup of a name the bulk call reported as
\* not found is answered without a card, as all the lookups before it, the
\* pass writes a tombstone under that name and goes on, to the next name,
\* the next batch or its end; get then returns null for the name.
C18_TombstoneAfterFallbacks ==
  [][\A i \in DOMAIN passes :
       LET p == passes[i]
           q == passes'[i]
           name == ChunkOf(p)[p.fi]
       IN (/\ p.pc = "single"
           /\ p.vi = Len(VariantsOf[name])
           /\ q # p
           /\ ~(name \in DOMAIN q.cache /\ q.cache[name].found))
          => /\ name \in DOMAIN q.cache
             /\ q.cache[name] = Tombstone
             /\ get(q.cache, name).isNull
             /\ q.pc \in {"single", "bulk", "done"}
             /\ q.pc = "single" => q.fi > p.fi /\ q.vi = 1]_vars

\* Fire was reported as not found, all its lookups have failed, it has
\* its tombstone and the pass is looking up the next name of the batch.
C18_Witness ==
  /\ Len(passes) = 1
  /\ passes[1].pc = "single"
  /\ passes[1].fi = 2
  /\ "Fire" \in DOMAIN passes[1].cache
  /\ passes[1].cache["Fire"] = Tombstone


\* Whether a card of a bulk response matches a requested name: the
\* normalized name, without case, is the card's canonical name or the name
\* of its first face.
MatchesCard(name, c) ==
  \/ toLowerCase(c.name) = toLowerCase(normalizeName(name))
  \/ c.face0 # "" /\ toLowerCase(c.face0) = toLowerCase(normalizeName(name))

\* Whether a cache holds a record, not a tombstone, under a name.
HasRecord(cache, name) == name \in DOMAIN cache /\ cache[name].found

\* C19: a requested name that a bulk response matches, by canonical name or
\* by first face, and a name that a single lookup returns a card for, has
\* a record under the requested string in the cache of the pass, and keeps
\* a record there until the pass ends.
C19_ResolvedUnderRequestedName ==
  /\ [](\A i \in DOMAIN passes :
          LET p == passes[i] IN
          /\ p.pc = "bulk" =>
               \A resp \in BulkResponses(ChunkOf(p)) :
                 \A k \in 1..Len(ChunkOf(p)) :
                   (resp.kind = "ok" /\ \E c \in resp.data : MatchesCard(ChunkOf(p)[k], c))
                     => HasRecord(OnBulk(p, resp).cache, ChunkOf(p)[k])
          /\ p.pc = "single" =>
               \A resp \in SingleResponses :
                 resp.kind = "ok" =>
                   /\ HasRecord(OnSingle(p, resp).cache, ChunkOf(p)[p.fi])
                   /\ OnSingle(p, resp).cache[ChunkOf(p)[p.fi]] = CardEntry(resp.card))
  /\ [][\A i \in DOMAIN passes : \A n \in DOMAIN passes[i].cache :
          HasRecord(passes[i].cache, n) => HasRecord(passes'[i].cache, n)]_vars

\* Zzz, which no card of the catalog matches, has a record from a single
\* lookup, and Fire has the record of the card whose first face it is.
C19_Witness ==
  /\ Len(passes) = 1
  /\ passes[1].pc = "done"
  /\ HasRecord(passes[1].cache, "Zzz")
  /\ HasRecord(passes[1].cache, "Fire")
  /\ HasRecord(passes[1].cache, "fire // ice")
  /\ passes[1].cache["Fire"].name = "Fire // Ice"


\* C20: every invocation of fetchCardsByNames writes the cache to the store
\* exactly once, when all its batches have been processed: an invocation
\* that has ended has saved once, one that is still waiting for an answer
\* has not saved yet.
C20_SavesExactlyOnce ==
  \A i \in DOMAIN passes :
    /\ passes[i].pc \in {"done", "threw"} => passes[i].saves = 1
    /\ passes[i].pc \in {"bulk", "single"} => passes[i].saves = 0


\* Whether a pass is waiting for an answer of the catalog.
InFlight(p) == p.pc \in {"bulk", "single"}

\* The names a pass has set out to fetch.
FetchSet(p) == {p.toFetch[k] : k \in 1..Len(p.toFetch)}

\* C21: useScryfall never has two passes in flight at the same time whose
\* sets of names to fetch overlap.
C21_NoOverlappingPasses ==
  \A i, j \in DOMAIN passes :
    (i # j /\ InFlight(passes[i]) /\ InFlight(passes[j]))
      => FetchSet(passes[i]) \cap FetchSet(passes[j]) = {}


\* The call taken as stalled: the bulk call of the first batch of a pass.
StalledCall(p) == p.pc = "bulk" /\ p.ci = 1

\* Every call of the catalog other than a stalled one is answered at some
\* time.
AnswerOther ==
  \E i \in DOMAIN passes :
    /\ ~StalledCall(passes[i])
    /\ (PassBulk(i) \/ PassSingle(i))

\* A session in which the first bulk call of a pass may stay unanswered for
\* ever and every other call is answered.
SpecStall == InitSession /\ [][NextSession]_vars /\ WF_vars(AnswerOther)

\* The names of the batches after the first one of a pass.
LaterBatchNames(p) ==
  {p.toFetch[k] : k \in (BatchSize + 1)..Len(p.toFetch)}

\* Pass i is the current pass and waits for the bulk call of its first
\* batch, with a further batch behind it.
WaitsOnFirstBatch(i) ==
  /\ i \in DOMAIN passes
  /\ passes[i].mounted
  /\ StalledCall(passes[i])
  /\ LaterBatchNames(passes[i]) # {}

\* C22: a stalled call stalls only its own batch: a name readable through
\* get stays readable, and while the current pass waits for the bulk call of
\* its first batch the names of its later batches come to have an entry in
\* the cache that get reads (unless the call is answered or the pass is
\* superseded).
C22_StallStaysLocal ==
  /\ [][DOMAIN sCache \subseteq DOMAIN sCache']_vars
  /\ \A i \in 1..MaxPasses :
       WaitsOnFirstBatch(i) ~>
         \/ ~WaitsOnFirstBatch(i)
         \/ LaterBatchNames(passes[i]) \subseteq DOMAIN sCache


\* C23: every displayed row is coloured by its diff status, also when deck
\* B is empty: red exactly when the card is only in deck A, green exactly
\* when only in deck B, yellow exactly when the quantities differ, gray
\* exactly when the quantities are the same in both decks.
C23_RowColourIsStatus ==
  rendered =>
    \A row \in DisplayedRows(deckA, deckB, showMerge, selectedForMerge) :
      LET qa == GetOr0(deckA, row[2])
          qb == GetOr0(deckB, row[2])
          colour == RowColor(row[2], deckA, deckB)
      IN /\ colour = "bg-red-700" <=> (qa > 0 /\ qb = 0)
         /\ colour = "bg-green-700" <=> (qa = 0 /\ qb > 0)
         /\ colour = "bg-yellow-700" <=> (qa > 0 /\ qb > 0 /\ qa # qb)
         /\ colour \in {"bg-gray-700", "bg-gray-800"} <=> qa = qb


\* Whether a name holds the separator of a card of several faces.
HasSeparator(s) == Len(BeforeSeparator(s)) < Len(s)

\* Whether step p -> q of a pass stays in the chain of lookups of one name.
SameChain(p, q) ==
  /\ p.pc = "single" /\ q.pc = "single"
  /\ q.ci = p.ci /\ q.fi = p.fi

\* C24: for a name the bulk call reports as not found the single lookups
\* are issued in the order exact(full), fuzzy(full), exact(text before the
\* separator), fuzzy(text before the separator); the two prefix lookups are
\* issued only if the name holds a separator; the first lookup that returns
\* a record ends the chain.
C24_FallbackChain ==
  /\ [](\A i \in DOMAIN passes :
          passes[i].pc = "single" =>
            LET p == passes[i]
                origName == ChunkOf(p)[p.fi]
                full == normalizeName(origName)
                front == trim(BeforeSeparator(full))
                v == VariantsOf[origName][p.vi]
            IN /\ p.vi \in 1..4
               /\ p.vi = 1 => v = [kind |-> "exact", q |-> full]
               /\ p.vi = 2 => v = [kind |-> "fuzzy", q |-> full]
               /\ p.vi = 3 => v = [kind |-> "exact", q |-> front]
               /\ p.vi = 4 => v = [kind |-> "fuzzy", q |-> front]
               /\ p.vi > 2 => HasSeparator(full)
               /\ \A resp \in SingleResponses :
                    resp.kind = "ok" => ~SameChain(p, OnSingle(p, resp)))
  /\ [][\A i \in DOMAIN passes :
          passes'[i].pc = "single" =>
            IF SameChain(passes[i], passes'[i])
            THEN passes'[i].vi = passes[i].vi + 1
            ELSE passes'[i] = passes[i] \/ passes'[i].vi = 1]_vars


\* Whether every entry of the cache before is in the cache after, as it
\* was.
KeepsEntries(before, after) ==
  \A n \in DOMAIN before : n \in DOMAIN after /\ after[n] = before[n]

\* C25: fetchCardsByNames never changes or replaces a cache entry that
\* existed before the call, record or tombstone; it only adds entries for
\* keys that were absent. The first call starts from the loaded cache, the
\* second from the cache the first one returned.
C25_ExistingEntriesKept ==
  /\ KeepsEntries(sCache, passes[1].cache)
  /\ Len(passes) = 2 => KeepsEntries(passes[1].cache, passes[2].cache)


\* No pass of the session is waiting for an answer.
AllPassesFinished ==
  /\ Len(passes) > 0
  /\ \A i \in DOMAIN passes : ~InFlight(passes[i])

\* C26: when all passes of a session have finished, the persisted cache
\* holds every entry of the cache state of useScryfall: a superseded pass
\* that finishes late does not replace the newer snapshot by an older one.
C26_StoreHoldsSessionCache ==
  AllPassesFinished => KeepsEntries(sCache, loadCache(cardStore))


\* C27: in every state in which the pass for the current name list is
\* still in flight the loading flag is true, also when an older,
\* superseded pass finishes in the meantime.
C27_LoadingWhileCurrentInFlight ==
  \A i \in DOMAIN passes :
    (passes[i].mounted /\ InFlight(passes[i])) => loading


(***************************************************************************)
(* Adding a card to a deck text (App.jsx 1092-1142, 1264-1316)             *)
(***************************************************************************)

\* prev.split(/\r?\n/) : the pieces between the line breaks, a line break
\* being "\n" or "\r\n"; empty pieces are kept.
RECURSIVE SplitOnLineBreak(_)
SplitOnLineBreak(s) ==
  LET n == RunLen("notNewline", s, 1) IN
  IF n = Len(s) THEN <<s>>
  ELSE <<IF At(s, n) = "\r" THEN Slice(s, 1, n - 1) ELSE Slice(s, 1, n)>>
       \o SplitOnLineBreak(Slice(s, n + 2, Len(s)))

\* Whether a line of the text is a line of the card: it matches
\* /^(\d+)x?\s+(.+)$/i and the normalized rest is the normalized name. The
\* dot of the pattern does not match a carriage return.
IsLineOf(line, name) ==
  LET m == CardMatch(line) IN
  /\ m.ok
  /\ \A k \in 1..Len(m.rest) : At(m.rest, k) # "\r"
  /\ normalizeName(m.rest) = normalizeName(name)

\* `${parseInt(m[1], 10) + 1} ${name}`
BumpedLine(line, name) ==
  numberToString(parseInt(CardMatch(line).digits) + 1) \o " " \o name

\* l.trim().length > 0
NonBlank(l) == Len(trim(l)) > 0

\* lines.join("\n")
RECURSIVE JoinLines(_)
JoinLines(ls) ==
  IF ls = <<>> THEN ""
  ELSE IF Len(ls) = 1 THEN ls[1]
  ELSE ls[1] \o "\n" \o JoinLines(Tail(ls))

\* The updater the two handlers pass to setDeckAText and setDeckBText: every
\* line of the card is replaced by a line with its quantity plus one; if
\* there is none, the line "1 name" is added at the end; blank lines are
\* dropped (App.jsx 1096-1109).
AddCardText(prev, name) ==
  LET lines == SplitOnLineBreak(prev)
      nextLines == [i \in 1..Len(lines) |->
                      IF IsLineOf(lines[i], name) THEN BumpedLine(lines[i], name)
                      ELSE lines[i]]
      found == \E i \in 1..Len(lines) : IsLineOf(lines[i], name)
      pushed == IF found THEN nextLines ELSE Append(nextLines, "1 " \o name)
  IN JoinLines(SelectSeq(pushed, NonBlank))

\* The lines of the generated deck texts.
AddLinePool == {"2 Foo", "1 Foo", "1 Bar", "3x Bar (MOM) 150", "Sideboard", ""}

AddTexts == {JoinLines(ls) : ls \in SeqsUpTo(AddLinePool, MaxLines)}

\* The names of the cards that are added.
AddNames == {"Foo", "Bar"}

InitAdd ==
  /\ deckAText \in AddTexts
  /\ deckBText \in {"", "2 Foo\n1 Foo", "1 Foo\nSideboard\n1 Bar"}
  /\ deckA = parseDeckText(deckAText)
  /\ deckB = parseDeckText(deckBText)
  /\ showMerge = FALSE
  /\ choiceStore = StoreAbsent
  /\ mergeChoices = EmptyObject
  /\ selectedForMerge = [n \in {} |-> FALSE]
  /\ mergedRows = mergedDeckRows(FALSE, deckA, deckB, mergeChoices, selectedForMerge)
  /\ pending = {}
  /\ typed = <<>>
  /\ rendered = TRUE
  /\ NoFetch
  /\ NoCall

\* The state change of an add: the text of the deck is replaced, the deck
\* is parsed again on the render and the prune effect is scheduled. Deck
\* "C" is deck A. The call and the decks before it are kept in callArgs.
AddTo(handler, deckName, name) ==
  /\ IF deckName = "B"
     THEN /\ deckBText' = AddCardText(deckBText, name)
          /\ deckB' = parseDeckText(deckBText')
          /\ UNCHANGED <<deckAText, deckA>>
     ELSE /\ deckAText' = AddCardText(deckAText, name)
          /\ deckA' = parseDeckText(deckAText')
          /\ UNCHANGED <<deckBText, deckB>>
  /\ pending' = {"prune"}
  /\ UNCHANGED <<showMerge, mergeChoices, selectedForMerge, choiceStore>>
  /\ Render
  /\ callArgs' = <<deckName, name, deckA, deckB>>
  /\ callResult' = <<handler>>
  /\ UNCHANGED <<typed, rendered, fetchVars>>

\* addCardToDeck(deckName, cardObj), called on a drop (App.jsx 1092-1142).
AddCardToDeck(deckName, name) ==
  /\ Idle
  /\ callResult = <<>>
  /\ AddTo("addCardToDeck", deckName, name)

\* handleAddCard(cardObj, deck), called by the search panel
\* (App.jsx 1264-1316).
HandleAddCard(name, deck) ==
  /\ Idle
  /\ callResult = <<>>
  /\ AddTo("handleAddCard", deck, name)

NextAdd ==
  \/ \E deckName \in {"A", "B", "C"}, name \in AddNames : AddCardToDeck(deckName, name)
  \/ \E deck \in {"A", "B", "C"}, name \in AddNames : HandleAddCard(name, deck)

SpecAdd == InitAdd /\ [][NextAdd]_vars

\* C28: adding a card to deck A or B raises the parsed quantity of the
\* card's normalized name in that deck by exactly 1 and leaves the quantity
\* of every other name in that deck unchanged, also when the text has
\* several lines for the card or a sideboard section.
C28_AddRaisesQuantityByOne ==
  (callResult # <<>> /\ callArgs[1] \in {"A", "B"}) =>
    LET before == IF callArgs[1] = "A" THEN callArgs[3] ELSE callArgs[4]
        after == IF callArgs[1] = "A" THEN deckA ELSE deckB
        key == normalizeName(callArgs[2])
    IN /\ GetOr0(after, key) = GetOr0(before, key) + 1
       /\ \A n \in (DOMAIN before \cup DOMAIN after) \ {key} :
            GetOr0(after, n) = GetOr0(before, n)


\* The names that have a row in one of the three lists on the screen.
ShownNames ==
  {row[2] : row \in DisplayedRows(deckA, deckB, showMerge, selectedForMerge)}
    \cup {mergedRows[i].name : i \in 1..Len(mergedRows)}

\* C29: in merge mode, after any sequence of deck edits, merge-choice
\* clicks and selection toggles, every name that has a quantity greater
\* than 0 in deck A or deck B is shown in at least one of column A, column
\* B and the merged deck.
C29_NoNameHidden ==
  (Idle /\ showMerge) =>
    \A n \in DOMAIN deckA \cup DOMAIN deckB :
      (GetOr0(deckA, n) > 0 \/ GetOr0(deckB, n) > 0) => n \in ShownNames


\* The effects of the start are running: both deck texts are empty, merge
\* mode is off and an effect is pending. A state of this shape that comes
\* up later has the same merge choices and store, and the same effects
\* ahead, as the start with that store.
StartUpEffects ==
  /\ deckAText = "" /\ deckBText = ""
  /\ ~showMerge
  /\ ~Idle

\* C30: merge choices that are in the persistent store when the app starts
\* are still in the store and in mergeChoices after the start-up effects
\* have run with both deck texts empty: no step of these effects drops or
\* changes an entry of mergeChoices or of the stored object.
C30_StartUpKeepsChoices ==
  [][StartUpEffects =>
       /\ KeepsEntries(mergeChoices, mergeChoices')
       /\ KeepsEntries(loadMergeChoices(choiceStore), loadMergeChoices(choiceStore'))]_vars

=============================================================================
